---- MODULE Spec2Model ----
(***************************************************************************)
(* Model of scripts/NN.py: the NeuralNetwork class (forward, backward,     *)
(* step, clear, fit, minibatch_reader, minibatch_fit, predict) with the    *)
(* MSE loss and the Free activation.                                       *)
(*                                                                         *)
(* Floating point numbers are modelled by exact rationals <<num, den>>     *)
(* (den > 0, reduced), with <<0, 0>> standing for NaN.  Sigmoid, TanH and  *)
(* CE need exp/log and are not modelled: every computation layer of the    *)
(* modelled network uses Free and the loss is MSE.                         *)
(***************************************************************************)
EXTENDS Integers, Sequences, FiniteSets, TLC

(***************************************************************************)
(* Bounds of the model.                                                    *)
(***************************************************************************)
MaxN == 2          \* largest number of rows of X and of Y
MaxEpochs == 3     \* largest n_epochs passed to fit / minibatch_fit
MaxStatus == 2     \* largest status_updates
MaxBatch == 2      \* largest batch_size
MaxCalls == 2      \* number of calls made on the network from outside
MaxDirect == 4     \* number of forward/backward/step/clear calls in a row

(***************************************************************************)
(* Rational arithmetic with NaN.                                           *)
(***************************************************************************)
NaN == <<0, 0>>
Zero == <<0, 1>>
One == <<1, 1>>
Two == <<2, 1>>

Abs(n) == IF n < 0 THEN -n ELSE n

\* Euclid's algorithm on naturals
GCD(a, b) ==
    LET gcd[m \in Nat, n \in Nat] == IF n = 0 THEN m ELSE gcd[n, m % n]
    IN  gcd[a, b]

IsNaN(a) == a[2] = 0

\* the pairs <<num, den>>
Rat == Int \X Int

\* the rational n / d, reduced; x / 0 is NaN
RNorm(n, d) ==
    LET norm[x \in Int, y \in Int] ==
            IF y = 0 THEN NaN
            ELSE LET g == GCD(Abs(x), Abs(y))
                     s == IF y < 0 THEN -1 ELSE 1
                 IN  <<(s * x) \div g, (s * y) \div g>>
    IN  norm[n, d]

RAdd(a, b) ==
    LET add[x \in Rat, y \in Rat] ==
            IF IsNaN(x) \/ IsNaN(y) THEN NaN
            ELSE LET g == GCD(x[2], y[2])
                 IN  RNorm(x[1] * (y[2] \div g) + y[1] * (x[2] \div g),
                           x[2] * (y[2] \div g))
    IN  add[a, b]

RNeg(a) == <<-a[1], a[2]>>

RSub(a, b) == RAdd(a, RNeg(b))

RMul(a, b) ==
    LET mul[x \in Rat, y \in Rat] ==
            IF IsNaN(x) \/ IsNaN(y) THEN NaN
            ELSE RNorm(x[1] * y[1], x[2] * y[2])
    IN  mul[a, b]

\* a / k for a count k; 0/0 is NaN, as numpy's mean of an empty array is
RDivN(a, k) ==
    LET div[x \in Rat, n \in Nat] ==
            IF n = 0 \/ IsNaN(x) THEN NaN ELSE RNorm(x[1], x[2] * n)
    IN  div[a, k]

\* the sum of a vector's elements, added in order
SumSeq(s) ==
    LET sum[k \in 0..Len(s)] == IF k = 0 THEN Zero ELSE RAdd(sum[k - 1], s[k])
    IN  sum[Len(s)]

\* np.mean over all elements of a vector (or of a python list of scalars)
Mean(v) == RDivN(SumSeq(v), Len(v))

Min(a, b) == IF a < b THEN a ELSE b

(***************************************************************************)
(* The network's configuration: NeuralNetwork(layers, learning_rate).      *)
(* Layers[i+1] is the width of python layer i, F[i+1] its activation.      *)
(***************************************************************************)
LearningRate == <<1, 2>>

\* the networks built: layers (width, activation) and the value every weight
\* and bias is drawn as
Configs ==
    {[layers |-> <<1, 1>>, f |-> <<"None", "Free">>, p |-> <<1, 2>>],
     [layers |-> <<1, 2, 1>>, f |-> <<"None", "Free", "Free">>, p |-> Zero]}

NLayers(n) == Len(n.layers)

\* Free.__activation__ and Free.__derivative__
Activate(f, z) == z
Derivative(f, a) == One

\* MSE.__loss__ : np.mean((x - y)**2)
MSELoss(x, y) ==
    Mean([k \in 1..Len(x) |-> RMul(RSub(x[k], y[k]), RSub(x[k], y[k]))])

\* MSE.__derivative__ : 2*np.mean(x - y)
MSEDerivative(x, y) ==
    RMul(Two, Mean([k \in 1..Len(x) |-> RSub(x[k], y[k])]))

Zeros(w) == [k \in 1..w |-> Zero]

\* the object built by __init__ / _initialize_params, every weight and bias
\* drawn as p (np.random.random draws from [0, 1))
NewNetwork(cfg) ==
    [layers    |-> cfg.layers,
     f         |-> cfg.f,
     weights   |-> [i \in 1..(Len(cfg.layers) - 1) |->
                      [r \in 1..cfg.layers[i + 1] |->
                          [c \in 1..cfg.layers[i] |-> cfg.p]]],
     bias      |-> [i \in 1..(Len(cfg.layers) - 1) |->
                      [r \in 1..cfg.layers[i + 1] |-> cfg.p]],
     zs        |-> [i \in 1..Len(cfg.layers) |-> Zeros(cfg.layers[i])],
     as        |-> [i \in 1..Len(cfg.layers) |-> Zeros(cfg.layers[i])],
     d_weights |-> <<>>,
     d_bias    |-> <<>>]

\* a @ w.T + b
Affine(a, w, b) ==
    [r \in 1..Len(w) |->
        RAdd(SumSeq([c \in 1..Len(a) |-> RMul(a[c], w[r][c])]), b[r])]

\* the loop of forward, from python layer idx on
RECURSIVE ForwardLoop(_, _)
ForwardLoop(n, idx) ==
    IF idx > NLayers(n) - 1 THEN n
    ELSE LET z == Affine(n.as[idx], n.weights[idx], n.bias[idx])
         IN  ForwardLoop([n EXCEPT !.zs[idx + 1] = z,
                                   !.as[idx + 1] = Activate(n.f[idx + 1], z)],
                         idx + 1)

\* forward(x): the network after the call; the call returns ForwardOut
Forward(n, x) == ForwardLoop([n EXCEPT !.as[1] = x], 1)

ForwardOut(n, x) == Forward(n, x).as[NLayers(n)]

\* the loop of backward from python layer idx down: the pair of per-layer
\* gradient lists after the loop.  cache is cache_dC_dA_dZ.
RECURSIVE BackwardLoop(_, _, _, _, _, _)
BackwardLoop(n, y, idx, cache, dw, db) ==
    IF idx = 0 THEN [dw |-> dw, db |-> db]
    ELSE LET width == n.layers[idx + 1]
             dC_dA ==
                 IF idx = NLayers(n) - 1
                 THEN [r \in 1..width |-> MSEDerivative(n.as[idx + 1], y)]
                 ELSE LET g == cache[Len(cache)]
                          w == n.weights[idx + 1]
                      IN  [c \in 1..width |->
                             SumSeq([r \in 1..Len(g) |-> RMul(g[r], w[r][c])])]
             dA_dZ == Derivative(n.f[idx + 1], n.as[idx + 1])
             dZ_dW == n.as[idx]
             dC_dA_dZ == [r \in 1..width |-> RMul(dC_dA[r], dA_dZ)]
             dC_dW == [r \in 1..width |->
                          [c \in 1..Len(dZ_dW) |->
                              RMul(LearningRate, RMul(dC_dA_dZ[r], dZ_dW[c]))]]
             dC_dB == [r \in 1..width |-> RMul(LearningRate, dC_dA_dZ[r])]
         IN  BackwardLoop(n, y, idx - 1, Append(cache, dC_dA_dZ),
                          [dw EXCEPT ![idx] = dC_dW],
                          [db EXCEPT ![idx] = dC_dB])

\* a backward whose loop stops one layer early, so that the entry keeps the
\* first layer's weight and bias arrays
BackwardKeepsFirstLayer(n, y) ==
    LET g == BackwardLoop(n, y, NLayers(n) - 1, <<>>, n.weights, n.bias)
    IN  [n EXCEPT !.d_weights = Append(@, [g.dw EXCEPT ![1] = n.weights[1]]),
                  !.d_bias = Append(@, [g.db EXCEPT ![1] = n.bias[1]])]

\* backward(y, Loss): one entry appended to each accumulator
Backward(n, y) ==
    LET g == BackwardLoop(n, y, NLayers(n) - 1, <<>>, n.weights, n.bias)
    IN  [n EXCEPT !.d_weights = Append(@, g.dw),
                  !.d_bias = Append(@, g.db)]

\* a reduction that sums the accumulated weight gradients of one layer
\* instead of taking their mean
SumOfWeights(acc, i, like) ==
    [r \in 1..Len(like) |-> [c \in 1..Len(like[r]) |->
        RDivN(SumSeq([m \in 1..Len(acc) |-> acc[m][i][r][c]]),
              IF Len(acc) = 0 THEN 0 ELSE 1)]]

\* tensor.mean(axis=0) of the accumulated gradients of one layer, in the
\* shape of that layer; of no gradients it is NaN, which the subtraction
\* broadcasts over the layer
MeanOfWeights(acc, i, like) ==
    [r \in 1..Len(like) |-> [c \in 1..Len(like[r]) |->
        RDivN(SumSeq([m \in 1..Len(acc) |-> acc[m][i][r][c]]), Len(acc))]]

MeanOfBias(acc, i, like) ==
    [r \in 1..Len(like) |->
        RDivN(SumSeq([m \in 1..Len(acc) |-> acc[m][i][r]]), Len(acc))]

\* self.params['weights'][i] -= mean_d_weight_tensor, for every i
SteppedWeights(n) ==
    [i \in 1..Len(n.weights) |->
        LET m == MeanOfWeights(n.d_weights, i, n.weights[i])
        IN  [r \in 1..Len(m) |-> [c \in 1..Len(m[r]) |->
                RSub(n.weights[i][r][c], m[r][c])]]]

\* self.params['bias'][i] -= mean_d_bias_tensor, for every i
SteppedBias(n) ==
    [i \in 1..Len(n.weights) |->
        LET m == MeanOfBias(n.d_bias, i, n.bias[i])
        IN  [r \in 1..Len(m) |-> RSub(n.bias[i][r], m[r])]]

\* a step() that empties the accumulators itself
StepThenEmpty(n) ==
    [n EXCEPT !.weights = SteppedWeights(n), !.bias = SteppedBias(n),
              !.d_weights = <<>>, !.d_bias = <<>>]

\* step()
Step(n) == [n EXCEPT !.weights = SteppedWeights(n), !.bias = SteppedBias(n)]

\* a clear() that forgets d_bias
ClearWeightsOnly(n) == [n EXCEPT !.d_weights = <<>>]

\* clear()
Clear(n) == [n EXCEPT !.d_weights = <<>>, !.d_bias = <<>>]

(***************************************************************************)
(* The callers' data: the rows of X and Y come from a fixed pool.          *)
(***************************************************************************)
XPool(k) == IF k % 2 = 1 THEN <<One>> ELSE <<Zero>>
YPool(k) == IF k % 2 = 1 THEN <<Zero>> ELSE <<One>>

RECURSIVE Perms(_)
\* the outcomes of np.random.choice(n, size=n, replace=False), as sequences
\* of row numbers 1..n
Perms(n) ==
    IF n = 0 THEN {<<>>}
    ELSE {[k \in 1..n |-> IF k < j THEN q[k] ELSE IF k = j THEN n ELSE q[k - 1]] :
            q \in Perms(n - 1), j \in 1..n}

\* python's s[i:j] on a sequence (positions counted from 0, negative ones
\* from the end, both clipped to the sequence)
PyIndex(i, n) == IF i < 0 THEN (IF i + n < 0 THEN 0 ELSE i + n) ELSE Min(i, n)
PySlice(s, i, j) == SubSeq(s, PyIndex(i, Len(s)) + 1, PyIndex(j, Len(s)))

MaxIt == MaxN + 2

(***************************************************************************)
(* State.  net[self] is a NeuralNetwork object, frame[self] the frame of   *)
(* the method running on it (pc = "idle": none), X and Y the dataset.      *)
(* obs[self] records what happened, for the properties below: it is never *)
(* read by the program.                                                    *)
(***************************************************************************)
VARIABLES net, frame, X, Y, calls, obs

vars == <<net, frame, X, Y, calls, obs>>

Nets == {1, 2}
Main == 1

IdleFrame ==
    [pc |-> "idle", n_epochs |-> 0, status_updates |-> 1, verbose |-> FALSE,
     batch_size |-> 0, epoch |-> 0, k |-> 0, losses |-> <<>>, num_obs |-> 0,
     random_indices |-> <<>>, it |-> 0, ind |-> <<>>, predictions |-> <<>>]

\* obs: method/start = the last call made from outside and the network at
\* that call; op/before = the last method that call ran on the network and
\* the network just before it; trace = what the call did in its current epoch (predict:
\* in all); nsteps/nclears = the step() and clear() calls it made; out = the
\* lines it printed; chunks = what the reader yielded in the current epoch;
\* raised = it ended in an AssertionError; returned = it returned; result =
\* what predict returned.
NoObs(n) ==
    [op |-> "none", before |-> n, method |-> "none", start |-> n,
     trace |-> <<>>, nsteps |-> 0, nclears |-> 0, out |-> <<>>, chunks |-> <<>>,
     raised |-> FALSE, returned |-> FALSE, result |-> <<>>]

Ev(e, a) == [ev |-> e, arg |-> a]

\* the record stops growing once the reader's counter has saturated
Log(o, f, e) ==
    IF f.it >= MaxIt THEN o
    ELSE [o EXCEPT !.trace = Append(@, e),
                   !.nsteps = IF e.ev = "step" THEN @ + 1 ELSE @,
                   !.nclears = IF e.ev = "clear" THEN @ + 1 ELSE @]

Init ==
    /\ \E cfg \in Configs :
         /\ net = [self \in Nets |-> NewNetwork(cfg)]
         /\ obs = [self \in Nets |-> NoObs(NewNetwork(cfg))]
    /\ \E nx \in 0..MaxN : X = [k \in 1..nx |-> XPool(k)]
    /\ \E ny \in 0..MaxN : Y = [k \in 1..ny |-> YPool(k)]
    /\ frame = [self \in Nets |-> IdleFrame]
    /\ calls = 0

Idle(self) == frame[self].pc = "idle" /\ calls < MaxCalls

\* what a call from outside starts its record with
Started(self, m) ==
    [obs[self] EXCEPT !.op = "none", !.before = net[self],
                      !.method = m, !.start = net[self], !.trace = <<>>,
                      !.nsteps = 0, !.nclears = 0, !.out = <<>>, !.chunks = <<>>,
                      !.raised = FALSE, !.returned = FALSE, !.result = <<>>]

\* the network methods as the trainer loops and outside callers run them,
\* with the record of the network just before
DoForward(self, x, o) ==
    /\ net' = [net EXCEPT ![self] = Forward(@, x)]
    /\ obs' = [obs EXCEPT ![self] = [o EXCEPT !.op = "forward", !.before = net[self]]]

\* forward(x) then backward(y, Loss); fwd is the network between the two
DoForwardBackward(self, x, y, o) ==
    \E fwd \in {Forward(net[self], x)} :
        /\ net' = [net EXCEPT ![self] = Backward(fwd, y)]
        /\ obs' = [obs EXCEPT ![self] = [o EXCEPT !.op = "backward", !.before = fwd]]

DoBackward(self, y, o) ==
    /\ net' = [net EXCEPT ![self] = Backward(@, y)]
    /\ obs' = [obs EXCEPT ![self] = [o EXCEPT !.op = "backward", !.before = net[self]]]

DoStep(self, o) ==
    /\ net' = [net EXCEPT ![self] = Step(@)]
    /\ obs' = [obs EXCEPT ![self] = [o EXCEPT !.op = "step", !.before = net[self]]]

DoClear(self, o) ==
    /\ net' = [net EXCEPT ![self] = Clear(@)]
    /\ obs' = [obs EXCEPT ![self] = [o EXCEPT !.op = "clear", !.before = net[self]]]

(***************************************************************************)
(* Calls of forward, backward, step and clear from outside the class.      *)
(***************************************************************************)
CallForward(self) ==
    /\ Idle(self)
    /\ \E k \in 1..Len(X) : DoForward(self, X[k], Started(self, "forward"))
    /\ calls' = calls + 1
    /\ UNCHANGED <<frame, X, Y>>

CallBackward(self) ==
    /\ Idle(self)
    /\ \E k \in 1..Len(Y) : DoBackward(self, Y[k], Started(self, "backward"))
    /\ calls' = calls + 1
    /\ UNCHANGED <<frame, X, Y>>

CallStep(self) ==
    /\ Idle(self)
    /\ DoStep(self, Started(self, "step"))
    /\ calls' = calls + 1
    /\ UNCHANGED <<frame, X, Y>>

CallClear(self) ==
    /\ Idle(self)
    /\ DoClear(self, Started(self, "clear"))
    /\ calls' = calls + 1
    /\ UNCHANGED <<frame, X, Y>>


\* the line printed: the epoch and np.mean(losses) (printed to 6 decimals),
\* with the number of step() and clear() calls made before it
Line(f, o) ==
    [epoch |-> f.epoch, loss |-> Mean(f.losses),
     nsteps |-> o.nsteps, nclears |-> o.nclears]

\* a report that forgets the final epoch
ReportsOnInterval(f) == f.verbose /\ f.epoch % f.status_updates = 0

\* the test in front of print
Reports(f) ==
    f.verbose /\ (f.epoch % f.status_updates = 0 \/ f.epoch = f.n_epochs - 1)

(***************************************************************************)
(* fit(X, Y, Loss, n_epochs, status_updates, verbose)                      *)
(***************************************************************************)
FitCall(self, n_ep, su, vb) ==
    /\ Idle(self)
    /\ frame' = [frame EXCEPT ![self] =
                   [IdleFrame EXCEPT !.pc = "fit_epoch", !.n_epochs = n_ep,
                                     !.status_updates = su, !.verbose = vb]]
    /\ obs' = [obs EXCEPT ![self] = Started(self, "fit")]
    /\ calls' = calls + 1
    /\ UNCHANGED <<net, X, Y>>

\* for epoch in np.arange(n_epochs): losses = []
FitEpoch(self) ==
    /\ frame[self].pc = "fit_epoch"
    /\ IF frame[self].epoch < frame[self].n_epochs
       THEN /\ frame' = [frame EXCEPT ![self].pc = "fit_sample",
                                      ![self].losses = <<>>, ![self].k = 1]
            /\ obs' = [obs EXCEPT ![self].trace = <<>>]
       ELSE /\ frame' = [frame EXCEPT ![self].pc = "idle"]
            /\ obs' = [obs EXCEPT ![self].returned = TRUE]
    /\ UNCHANGED <<net, X, Y, calls>>

\* a fit that walks the dataset from its end
FitSampleReversed(self) ==
    LET f == frame[self]
        k == Min(Len(X), Len(Y)) + 1 - f.k
    IN  /\ f.pc = "fit_sample"
        /\ f.k <= Min(Len(X), Len(Y))
        /\ DoForwardBackward(self, X[k], Y[k],
              [obs[self] EXCEPT !.trace =
                  @ \o <<Ev("forward", k), Ev("loss", k), Ev("backward", k)>>])
        /\ frame' = [frame EXCEPT
              ![self].losses = Append(@, MSELoss(ForwardOut(net[self], X[k]), Y[k])),
              ![self].k = f.k + 1]
        /\ UNCHANGED <<X, Y, calls>>

\* one round of: for x, y in zip(X, Y): forward, loss, backward, append
FitSample(self) ==
    LET f == frame[self]
        k == f.k
    IN  /\ f.pc = "fit_sample"
        /\ k <= Min(Len(X), Len(Y))
        /\ DoForwardBackward(self, X[k], Y[k],
              [obs[self] EXCEPT !.trace =
                  @ \o <<Ev("forward", k), Ev("loss", k), Ev("backward", k)>>])
        /\ frame' = [frame EXCEPT
              ![self].losses = Append(@, MSELoss(ForwardOut(net[self], X[k]), Y[k])),
              ![self].k = k + 1]
        /\ UNCHANGED <<X, Y, calls>>

\* a fit that empties the accumulators before step() instead of after it
FitStepAfterClear(self) ==
    /\ frame[self].pc = "fit_sample"
    /\ frame[self].k > Min(Len(X), Len(Y))
    /\ net' = [net EXCEPT ![self] = Step(Clear(@))]
    /\ obs' = [obs EXCEPT ![self] =
                 [Log(obs[self], frame[self], Ev("step", 0))
                     EXCEPT !.op = "step", !.before = Clear(net[self])]]
    /\ frame' = [frame EXCEPT ![self].pc = "fit_clear"]
    /\ UNCHANGED <<X, Y, calls>>

\* zip is exhausted: self.step()
FitStep(self) ==
    /\ frame[self].pc = "fit_sample"
    /\ frame[self].k > Min(Len(X), Len(Y))
    /\ DoStep(self, Log(obs[self], frame[self],
                        Ev("step", Len(net[self].d_weights))))
    /\ frame' = [frame EXCEPT ![self].pc = "fit_clear"]
    /\ UNCHANGED <<X, Y, calls>>

\* self.clear()
FitClear(self) ==
    /\ frame[self].pc = "fit_clear"
    /\ DoClear(self, Log(obs[self], frame[self], Ev("clear", 0)))
    /\ frame' = [frame EXCEPT ![self].pc = "fit_report"]
    /\ UNCHANGED <<X, Y, calls>>

\* if verbose: if (epoch % status_updates == 0) | (epoch == n_epochs-1): print
FitReport(self) ==
    LET f == frame[self]
    IN  /\ f.pc = "fit_report"
        /\ obs' = [obs EXCEPT ![self].out =
              IF Reports(f) THEN Append(@, Line(f, obs[self])) ELSE @]
        /\ frame' = [frame EXCEPT ![self].pc = "fit_epoch", ![self].epoch = @ + 1]
        /\ UNCHANGED <<net, X, Y, calls>>

Fit(self) ==
    \/ FitEpoch(self)
    \/ FitSample(self)
    \/ FitStep(self)
    \/ FitClear(self)
    \/ FitReport(self)

(***************************************************************************)
(* minibatch_fit(X, Y, Loss, n_epochs, batch_size, status_updates,         *)
(* verbose) and the generator minibatch_reader(X, Y, batch_size)           *)
(***************************************************************************)
BatchSizes == {-1} \cup (0..MaxBatch)

MinibatchFitCall(self, n_ep, bs, su, vb) ==
    /\ Idle(self)
    /\ frame' = [frame EXCEPT ![self] =
                   [IdleFrame EXCEPT !.pc = "mb_epoch", !.n_epochs = n_ep,
                                     !.batch_size = bs,
                                     !.status_updates = su, !.verbose = vb]]
    /\ obs' = [obs EXCEPT ![self] = Started(self, "minibatch_fit")]
    /\ calls' = calls + 1
    /\ UNCHANGED <<net, X, Y>>

\* for epoch in np.arange(n_epochs): losses = []; the generator is created
MinibatchEpoch(self) ==
    /\ frame[self].pc = "mb_epoch"
    /\ IF frame[self].epoch < frame[self].n_epochs
       THEN /\ frame' = [frame EXCEPT ![self].pc = "mb_reader", ![self].losses = <<>>]
            /\ obs' = [obs EXCEPT ![self].chunks = <<>>, ![self].trace = <<>>]
       ELSE /\ frame' = [frame EXCEPT ![self].pc = "idle"]
            /\ obs' = [obs EXCEPT ![self].returned = TRUE]
    /\ UNCHANGED <<net, X, Y, calls>>

\* the generator's first lines, run when the loop asks for the first chunk:
\* num_obs, the assertion, random_indices, it = 0
ReaderStart(self) ==
    /\ frame[self].pc = "mb_reader"
    /\ IF Len(X) # Len(Y)
       THEN /\ frame' = [frame EXCEPT ![self].pc = "idle"]
            /\ obs' = [obs EXCEPT ![self].raised = TRUE]
       ELSE \E q \in Perms(Len(X)) :
            /\ frame' = [frame EXCEPT ![self].pc = "mb_next",
                                      ![self].num_obs = Len(X),
                                      ![self].random_indices = q,
                                      ![self].it = 0]
            /\ obs' = obs
    /\ UNCHANGED <<net, X, Y, calls>>

\* a reader whose chunks start at it instead of batch_size * it
ReaderNextOverlap(self) ==
    LET f == frame[self]
        i == f.it
        j == IF i + f.batch_size > f.num_obs THEN f.num_obs ELSE i + f.batch_size
        it1 == IF f.it < MaxIt THEN f.it + 1 ELSE f.it
        chunk == PySlice(f.random_indices, i, j)
    IN  /\ f.pc = "mb_next"
        /\ IF i >= f.num_obs
           THEN /\ frame' = [frame EXCEPT ![self].pc = "mb_report", ![self].it = it1]
                /\ obs' = obs
           ELSE /\ frame' = [frame EXCEPT ![self].pc = "mb_sample", ![self].it = it1,
                                          ![self].ind = chunk, ![self].k = 1]
                /\ obs' = [obs EXCEPT ![self] =
                      IF it1 >= MaxIt THEN @
                      ELSE [@ EXCEPT !.chunks = Append(@, chunk),
                                     !.trace = Append(@, Ev("chunk", Len(chunk)))]]
        /\ UNCHANGED <<net, X, Y, calls>>

\* one round of the generator's while loop: it yields a chunk or ends
ReaderNext(self) ==
    LET f == frame[self]
        i == f.batch_size * f.it
        j == IF i + f.batch_size > f.num_obs THEN f.num_obs ELSE i + f.batch_size
        it1 == IF f.it < MaxIt THEN f.it + 1 ELSE f.it
        chunk == PySlice(f.random_indices, i, j)
    IN  /\ f.pc = "mb_next"
        /\ IF i >= f.num_obs
           THEN /\ frame' = [frame EXCEPT ![self].pc = "mb_report", ![self].it = it1]
                /\ obs' = obs
           ELSE /\ frame' = [frame EXCEPT ![self].pc = "mb_sample", ![self].it = it1,
                                          ![self].ind = chunk, ![self].k = 1]
                /\ obs' = [obs EXCEPT ![self] =
                      IF it1 >= MaxIt THEN @
                      ELSE [@ EXCEPT !.chunks = Append(@, chunk),
                                     !.trace = Append(@, Ev("chunk", Len(chunk)))]]
        /\ UNCHANGED <<net, X, Y, calls>>

\* one round of: for x, y in zip(sub_X, sub_Y): forward, loss, backward, append
MinibatchSample(self) ==
    LET f == frame[self]
        r == f.ind[f.k]
    IN  /\ f.pc = "mb_sample"
        /\ f.k <= Len(f.ind)
        /\ DoForwardBackward(self, X[r], Y[r],
              [obs[self] EXCEPT !.trace =
                  @ \o <<Ev("forward", r), Ev("loss", r), Ev("backward", r)>>])
        /\ frame' = [frame EXCEPT
              ![self].losses = Append(@, MSELoss(ForwardOut(net[self], X[r]), Y[r])),
              ![self].k = f.k + 1]
        /\ UNCHANGED <<X, Y, calls>>

\* the chunk is exhausted: self.step()
MinibatchStep(self) ==
    /\ frame[self].pc = "mb_sample"
    /\ frame[self].k > Len(frame[self].ind)
    /\ DoStep(self, Log(obs[self], frame[self],
                        Ev("step", Len(net[self].d_weights))))
    /\ frame' = [frame EXCEPT ![self].pc = "mb_clear"]
    /\ UNCHANGED <<X, Y, calls>>

\* self.clear(), then back to the generator
MinibatchClear(self) ==
    /\ frame[self].pc = "mb_clear"
    /\ DoClear(self, Log(obs[self], frame[self], Ev("clear", 0)))
    /\ frame' = [frame EXCEPT ![self].pc = "mb_next"]
    /\ UNCHANGED <<X, Y, calls>>

MinibatchReport(self) ==
    LET f == frame[self]
    IN  /\ f.pc = "mb_report"
        /\ obs' = [obs EXCEPT ![self].out =
              IF Reports(f) THEN Append(@, Line(f, obs[self])) ELSE @]
        /\ frame' = [frame EXCEPT ![self].pc = "mb_epoch", ![self].epoch = @ + 1]
        /\ UNCHANGED <<net, X, Y, calls>>

MinibatchFit(self) ==
    \/ MinibatchEpoch(self)
    \/ ReaderStart(self)
    \/ ReaderNext(self)
    \/ MinibatchSample(self)
    \/ MinibatchStep(self)
    \/ MinibatchClear(self)
    \/ MinibatchReport(self)

(***************************************************************************)
(* predict(X)                                                              *)
(***************************************************************************)
PredictCall(self) ==
    /\ Idle(self)
    /\ frame' = [frame EXCEPT ![self] = [IdleFrame EXCEPT !.pc = "predict", !.k = 1]]
    /\ obs' = [obs EXCEPT ![self] = Started(self, "predict")]
    /\ calls' = calls + 1
    /\ UNCHANGED <<net, X, Y>>

\* a predict that puts each prediction in front of the earlier ones
PredictSamplePrepend(self) ==
    LET f == frame[self]
    IN  /\ f.pc = "predict"
        /\ f.k <= Len(X)
        /\ DoForward(self, X[f.k],
              [obs[self] EXCEPT !.trace = Append(@, Ev("forward", f.k))])
        /\ frame' = [frame EXCEPT
              ![self].predictions = <<ForwardOut(net[self], X[f.k])>> \o @,
              ![self].k = f.k + 1]
        /\ UNCHANGED <<X, Y, calls>>

\* one round of: for x in X: pred = self.forward(x); predictions.append(pred)
PredictSample(self) ==
    LET f == frame[self]
    IN  /\ f.pc = "predict"
        /\ f.k <= Len(X)
        /\ DoForward(self, X[f.k],
              [obs[self] EXCEPT !.trace = Append(@, Ev("forward", f.k))])
        /\ frame' = [frame EXCEPT
              ![self].predictions = Append(@, ForwardOut(net[self], X[f.k])),
              ![self].k = f.k + 1]
        /\ UNCHANGED <<X, Y, calls>>

\* return np.array(predictions)
PredictReturn(self) ==
    /\ frame[self].pc = "predict"
    /\ frame[self].k > Len(X)
    /\ frame' = [frame EXCEPT ![self].pc = "idle"]
    /\ obs' = [obs EXCEPT ![self].returned = TRUE,
                          ![self].result = frame[self].predictions]
    /\ UNCHANGED <<net, X, Y, calls>>

Predict(self) == PredictSample(self) \/ PredictReturn(self)

(***************************************************************************)
(* One network, called from outside in any order.                          *)
(***************************************************************************)
Epochs == 0..MaxEpochs

\* (status_updates, verbose): without verbose status_updates is never read
Reporting == {<<1, FALSE>>} \cup {<<su, TRUE>> : su \in 1..MaxStatus}

Call(self) ==
    \/ CallForward(self)
    \/ CallBackward(self)
    \/ CallStep(self)
    \/ CallClear(self)
    \/ PredictCall(self)
    \/ \E n_ep \in Epochs, r \in Reporting :
           FitCall(self, n_ep, r[1], r[2])
    \/ \E n_ep \in Epochs, bs \in BatchSizes, r \in Reporting :
           MinibatchFitCall(self, n_ep, bs, r[1], r[2])

Next == Call(Main) \/ Fit(Main) \/ MinibatchFit(Main) \/ Predict(Main)

Spec == Init /\ [][Next]_vars

(***************************************************************************)
(* One training call on a fresh network, run to its end: the interpreter   *)
(* keeps running the method it is in.                                      *)
(***************************************************************************)
TrainCall ==
    /\ obs[Main].method = "none"
    /\ \/ \E n_ep \in Epochs, r \in Reporting :
              FitCall(Main, n_ep, r[1], r[2])
       \/ \E n_ep \in Epochs, bs \in BatchSizes, r \in Reporting :
              MinibatchFitCall(Main, n_ep, bs, r[1], r[2])

NextTrain == TrainCall \/ Fit(Main) \/ MinibatchFit(Main)

TrainSpec == Init /\ [][NextTrain]_vars /\ WF_vars(NextTrain)

(***************************************************************************)
(* Two networks built alike: one epoch of fit on the first, one epoch of   *)
(* minibatch_fit with batch_size = the dataset size on the second.         *)
(***************************************************************************)
EqFitCall ==
    /\ obs[1].method = "none"
    /\ FitCall(1, 1, 1, FALSE)

EqMinibatchFitCall ==
    /\ obs[2].method = "none"
    /\ MinibatchFitCall(2, 1, Len(X), 1, FALSE)

NextEq == EqFitCall \/ EqMinibatchFitCall \/ Fit(1) \/ MinibatchFit(2)

SpecEq == Init /\ [][NextEq]_vars

(***************************************************************************)
(* Properties.                                                             *)
(***************************************************************************)
\* what the trainer loops do with row r
SampleEvents(r) == <<Ev("forward", r), Ev("loss", r), Ev("backward", r)>>

RECURSIVE Pass(_)
\* ... and with the rows of a sequence of row numbers, in its order
Pass(rows) ==
    IF rows = <<>> THEN <<>> ELSE SampleEvents(rows[1]) \o Pass(Tail(rows))

UpTo(n) == [k \in 1..n |-> k]

Ceil(n, b) == (n + b - 1) \div b

\* the accumulator entries a call found when it started; its first step()
\* sees them too
Stale(o) == Len(o.start.d_weights)

FitRows == Min(Len(X), Len(Y))

\* what an epoch of fit does up to and including step(), and in all, st
\* entries being in the accumulators when the epoch starts
FitEpochToStep(st) ==
    Pass(UpTo(FitRows)) \o <<Ev("step", FitRows + st)>>

FitEpochTrace(st) == FitEpochToStep(st) \o <<Ev("clear", 0)>>

\* the course of fit, the accumulators holding stale entries when it is
\* called
FitEpochOrder(stale) ==
    LET o == obs[Main]
        f == frame[Main]
        st == IF f.epoch = 0 THEN stale ELSE 0
        stPrev == IF f.epoch = 1 THEN stale ELSE 0
    IN  o.method = "fit" =>
          /\ f.epoch <= f.n_epochs
          /\ o.returned <=> (f.pc = "idle")
          /\ o.returned => f.epoch = f.n_epochs
          /\ f.pc = "fit_sample" =>
                /\ f.k <= FitRows + 1
                /\ o.trace = Pass(UpTo(f.k - 1))
                /\ o.nsteps = f.epoch /\ o.nclears = f.epoch
          /\ f.pc = "fit_clear" =>
                /\ o.trace = FitEpochToStep(st)
                /\ o.nsteps = f.epoch + 1 /\ o.nclears = f.epoch
          /\ f.pc = "fit_report" =>
                /\ o.trace = FitEpochTrace(st)
                /\ o.nsteps = f.epoch + 1 /\ o.nclears = f.epoch + 1
          /\ f.pc \in {"fit_epoch", "idle"} =>
                /\ o.trace = IF f.epoch = 0 THEN <<>> ELSE FitEpochTrace(stPrev)
                /\ o.nsteps = f.epoch /\ o.nclears = f.epoch

\* C1 as the spec states it: in every epoch of fit the pairs (x, y) are
\* processed in dataset order, each by forward, loss, backward, with no
\* step() or clear() in between; after the last pair step() is called once
\* and then clear() once; step() is called n_epochs times in all and each
\* step() sees exactly one accumulated entry per sample of its epoch.
C1_StepSeesEpochSamples == FitEpochOrder(0)

\* C1, amended: the same order of calls, and each step() sees one entry per
\* sample of its epoch; the first step() of the call sees in addition the
\* entries the accumulators held when fit was called.
C1_FitEpochOrder == FitEpochOrder(Stale(obs[Main]))

C1_Witness ==
    /\ obs[Main].method = "fit" /\ obs[Main].returned
    /\ frame[Main].n_epochs >= 2 /\ FitRows = 2

\* the rows forward was called on, in the order of the calls
ForwardRows(trace) ==
    LET sel == SelectSeq(trace, LAMBDA e : e.ev = "forward")
    IN  [k \in 1..Len(sel) |-> sel[k].arg]

IsPermutation(q, n) == Len(q) = n /\ {q[k] : k \in 1..Len(q)} = 1..n

\* the m-th contiguous slice of b indices of q
Slice(q, b, m) == SubSeq(q, (m - 1) * b + 1, Min(m * b, Len(q)))

\* what minibatch_fit does with one chunk, st more entries being in the
\* accumulators
ChunkToStep(chunk, st) ==
    <<Ev("chunk", Len(chunk))>> \o Pass(chunk) \o <<Ev("step", Len(chunk) + st)>>

ChunkTrace(chunk, st) == ChunkToStep(chunk, st) \o <<Ev("clear", 0)>>

RECURSIVE ChunksTrace(_, _, _)
\* ... and with the first m chunks of an epoch
ChunksTrace(chunks, m, st) ==
    IF m = 0 THEN <<>>
    ELSE ChunksTrace(chunks, m - 1, st) \o
         ChunkTrace(chunks[m], IF m = 1 THEN st ELSE 0)

\* C2: in every epoch of minibatch_fit with batch_size b >= 1 the chunks
\* the reader yields are the contiguous slices of b indices of one
\* permutation of the n rows (the last one holding the 1..b indices left),
\* ceil(n/b) in all, every row is processed once, and step() then clear()
\* is called once after each chunk.
C2_MinibatchChunks ==
    LET o == obs[Main]
        f == frame[Main]
        b == f.batch_size
        n == f.num_obs
        c == Len(o.chunks)
        st == IF f.epoch = 0 THEN Stale(o) ELSE 0
        st1 == IF c = 1 THEN st ELSE 0
    IN  (/\ o.method = "minibatch_fit" /\ b >= 1
         /\ f.pc \in {"mb_next", "mb_sample", "mb_clear", "mb_report"}) =>
          /\ n = Len(X) /\ n = Len(Y)
          /\ IsPermutation(f.random_indices, n)
          /\ c <= Ceil(n, b)
          /\ \A m \in 1..c :
                /\ o.chunks[m] = Slice(f.random_indices, b, m)
                /\ Len(o.chunks[m]) \in 1..b
                /\ m < Ceil(n, b) => Len(o.chunks[m]) = b
          /\ f.pc = "mb_next" =>
                /\ o.trace = ChunksTrace(o.chunks, c, st)
                /\ o.nsteps = f.epoch * Ceil(n, b) + c /\ o.nclears = o.nsteps
          /\ f.pc = "mb_sample" =>
                /\ c >= 1 /\ f.ind = o.chunks[c]
                /\ o.trace = ChunksTrace(o.chunks, c - 1, st) \o
                             <<Ev("chunk", Len(f.ind))>> \o
                             Pass(SubSeq(f.ind, 1, f.k - 1))
                /\ o.nsteps = f.epoch * Ceil(n, b) + c - 1 /\ o.nclears = o.nsteps
          /\ f.pc = "mb_clear" =>
                /\ c >= 1
                /\ o.trace = ChunksTrace(o.chunks, c - 1, st) \o
                             ChunkToStep(o.chunks[c], st1)
                /\ o.nsteps = f.epoch * Ceil(n, b) + c /\ o.nclears = o.nsteps - 1
          /\ f.pc = "mb_report" =>
                /\ c = Ceil(n, b)
                /\ o.trace = ChunksTrace(o.chunks, c, st)
                /\ ForwardRows(o.trace) = f.random_indices
                /\ o.nsteps = (f.epoch + 1) * c /\ o.nclears = o.nsteps

C2_Witness ==
    /\ obs[Main].method = "minibatch_fit" /\ frame[Main].pc = "mb_report"
    /\ frame[Main].batch_size = 1 /\ frame[Main].epoch = 1
    /\ frame[Main].random_indices = <<2, 1>>
    /\ Len(obs[Main].chunks) = 2

\* C3 as the spec states it: after any call to step() both accumulators are
\* empty.
C3_EmptyAfterStep ==
    obs[Main].op = "step" =>
        net[Main].d_weights = <<>> /\ net[Main].d_bias = <<>>

\* C3, amended: step() leaves both accumulators exactly as they were before
\* the call; they are empty after clear(), which fit and minibatch_fit call
\* immediately after every step().
C3_StepKeepsAccumulators ==
    LET o == obs[Main]
        n == net[Main]
    IN  /\ o.op = "step" =>
              /\ n.d_weights = o.before.d_weights
              /\ n.d_bias = o.before.d_bias
        /\ o.op = "clear" => n.d_weights = <<>> /\ n.d_bias = <<>>
        /\ (o.op = "step" /\ o.method \in {"fit", "minibatch_fit"}) =>
              frame[Main].pc \in {"fit_clear", "mb_clear"}

C3_Witness ==
    /\ obs[Main].op = "step" /\ frame[Main].pc = "fit_clear"
    /\ Len(net[Main].d_weights) = 2 /\ Len(net[Main].d_bias) = 2

\* C4: step() with empty accumulators leaves every weight matrix and bias
\* vector as it was.
C4_StepOnEmptyKeepsParameters ==
    LET o == obs[Main]
    IN  (o.op = "step" /\ o.before.d_weights = <<>> /\ o.before.d_bias = <<>>) =>
            /\ net[Main].weights = o.before.weights
            /\ net[Main].bias = o.before.bias

\* C5: from identical parameters, one epoch of minibatch_fit with
\* batch_size equal to the dataset size and one epoch of fit on the same
\* dataset, the rows taken in the same order, produce the same parameters.
C5_SameParameters ==
    (/\ obs[1].method = "fit" /\ obs[1].returned
     /\ obs[2].method = "minibatch_fit" /\ obs[2].returned
     /\ frame[2].random_indices = UpTo(Len(X))) =>
        /\ net[1].weights = net[2].weights
        /\ net[1].bias = net[2].bias

\* what is left of C5 on a dataset with at least one row (each side is
\* then one step() over one gradient per row)
C5_SameParametersNonEmpty ==
    (/\ obs[1].method = "fit" /\ obs[1].returned
     /\ obs[2].method = "minibatch_fit" /\ obs[2].returned
     /\ frame[2].random_indices = UpTo(Len(X))
     /\ Len(X) >= 1) =>
        /\ net[1].weights = net[2].weights
        /\ net[1].bias = net[2].bias
        /\ obs[1].nsteps = 1 /\ obs[2].nsteps = 1

\* C6 as the spec states it: during minibatch_fit (batch_size >= 1) the
\* accumulators never hold more than batch_size entries, during fit never
\* more than the dataset has rows, and at every epoch boundary and when the
\* call returns they are empty.
C6_AccumulatorsBounded ==
    LET o == obs[Main]
        f == frame[Main]
        n == net[Main]
    IN  /\ (o.method = "minibatch_fit" /\ f.batch_size >= 1 /\ f.pc # "idle") =>
              Len(n.d_weights) <= f.batch_size /\ Len(n.d_bias) <= f.batch_size
        /\ (o.method = "fit" /\ f.pc # "idle") =>
              Len(n.d_weights) <= FitRows /\ Len(n.d_bias) <= FitRows
        /\ (o.method \in {"fit", "minibatch_fit"}
              /\ (f.pc \in {"fit_epoch", "mb_epoch"} \/ o.returned)) =>
              n.d_weights = <<>> /\ n.d_bias = <<>>

\* C6, amended: the entries the accumulators hold when fit or minibatch_fit
\* is called stay until the call's first clear() (so its first step()
\* counts them, and a call that never clears returns with them); beyond
\* those, the accumulators never hold more than batch_size entries during
\* minibatch_fit (batch_size >= 1) nor more than the dataset has rows during
\* fit, and at every epoch boundary and at the return they hold nothing
\* that the call computed.
C6_BoundedBeyondStale ==
    LET o == obs[Main]
        f == frame[Main]
        n == net[Main]
        st == IF o.nclears = 0 THEN Stale(o) ELSE 0
    IN  o.method \in {"fit", "minibatch_fit"} =>
          /\ Len(n.d_weights) = Len(n.d_bias)
          /\ (o.method = "minibatch_fit" /\ f.batch_size >= 1 /\ f.pc # "idle") =>
                Len(n.d_weights) <= st + f.batch_size
          /\ (o.method = "fit" /\ f.pc # "idle") =>
                Len(n.d_weights) <= st + FitRows
          /\ (f.pc \in {"fit_epoch", "mb_epoch"} \/ o.returned) =>
                /\ n.d_weights = IF o.nclears = 0 THEN o.start.d_weights ELSE <<>>
                /\ n.d_bias = IF o.nclears = 0 THEN o.start.d_bias ELSE <<>>

C6_Witness ==
    /\ obs[Main].method = "minibatch_fit" /\ frame[Main].pc = "mb_clear"
    /\ frame[Main].batch_size = 2 /\ frame[Main].epoch = 1
    /\ Stale(obs[Main]) = 0
    /\ Len(net[Main].d_weights) = 2

\* C7: predict(X) calls forward once per row of X in order and returns as
\* many outputs, the k-th being the forward output for the k-th row; the
\* weights, the biases and both accumulators stay as they were.
C7_PredictFrame ==
    LET o == obs[Main]
        f == frame[Main]
        n == net[Main]
    IN  o.method = "predict" =>
          /\ n.weights = o.start.weights /\ n.bias = o.start.bias
          /\ n.d_weights = o.start.d_weights /\ n.d_bias = o.start.d_bias
          /\ f.pc = "predict" =>
                /\ o.trace = [k \in 1..(f.k - 1) |-> Ev("forward", k)]
                /\ Len(f.predictions) = f.k - 1
          /\ o.returned =>
                /\ o.trace = [k \in 1..Len(X) |-> Ev("forward", k)]
                /\ Len(o.result) = Len(X)
                /\ \A k \in 1..Len(X) : o.result[k] = ForwardOut(o.start, X[k])
                /\ Len(X) >= 1 => n.as[1] = X[Len(X)]

C7_Witness ==
    /\ obs[Main].method = "predict" /\ obs[Main].returned
    /\ Len(X) = 2
    /\ obs[Main].result[1] # obs[Main].result[2]

\* C8: with X and Y of unequal sizes, fit and minibatch_fit fail with an
\* assertion before any sample is processed: no forward, backward or step
\* runs, no parameter changes, and the call does not return normally.
C8_UnequalSizesRejected ==
    LET o == obs[Main]
    IN  (o.method \in {"fit", "minibatch_fit"} /\ Len(X) # Len(Y)) =>
            /\ o.op = "none"
            /\ net[Main].weights = o.start.weights
            /\ net[Main].bias = o.start.bias
            /\ ~o.returned
            /\ frame[Main].pc = "idle" => o.raised

\* C9: every call of fit or minibatch_fit, whatever the integer batch_size,
\* comes to an end, and when it returns it has run n_epochs epochs.
C9_Terminates ==
    (obs[Main].method \in {"fit", "minibatch_fit"} /\ frame[Main].pc # "idle")
        ~> (/\ frame[Main].pc = "idle"
            /\ obs[Main].returned => frame[Main].epoch = frame[Main].n_epochs)

\* the epochs 0..n-1 that end with a line
RECURSIVE ReportedEpochs(_, _)
ReportedEpochs(f, n) ==
    IF n = 0 THEN <<>>
    ELSE ReportedEpochs(f, n - 1) \o
         (IF (n - 1) % f.status_updates = 0 \/ n - 1 = f.n_epochs - 1
          THEN <<n - 1>> ELSE <<>>)

\* the step() calls (and clear() calls) of one epoch that comes to its end
StepsPerEpoch(o, f) ==
    IF o.method = "fit" THEN 1
    ELSE IF f.num_obs = 0 THEN 0 ELSE Ceil(f.num_obs, f.batch_size)

\* C10: with verbose on, fit and minibatch_fit print one line for each
\* epoch n with n mod status_updates = 0 or n = n_epochs - 1, after that
\* epoch's step() and clear() calls, and for no other epoch; with verbose
\* off they print nothing.
C10_ReportedEpochs ==
    LET o == obs[Main]
        f == frame[Main]
    IN  o.method \in {"fit", "minibatch_fit"} =>
          /\ [k \in 1..Len(o.out) |-> o.out[k].epoch] =
                IF f.verbose THEN ReportedEpochs(f, f.epoch) ELSE <<>>
          /\ \A k \in 1..Len(o.out) :
                /\ o.out[k].nsteps = (o.out[k].epoch + 1) * StepsPerEpoch(o, f)
                /\ o.out[k].nclears = o.out[k].nsteps
          /\ o.returned => f.epoch = f.n_epochs

C10_Witness ==
    LET o == obs[Main]
        f == frame[Main]
    IN  /\ o.method \in {"fit", "minibatch_fit"} /\ o.returned
        /\ f.verbose /\ f.status_updates = 2 /\ f.n_epochs = 3
        /\ Len(o.out) = 2 /\ o.out[1].epoch = 0 /\ o.out[2].epoch = 2
        /\ o.nsteps >= 3

\* the gradient of the loss by the pre-activations of layer i + 1, by the
\* chain rule from the output layer down
Delta(n, y) ==
    LET L == NLayers(n)
        delta[i \in 1..(L - 1)] ==
            IF i = L - 1
            THEN [r \in 1..n.layers[L] |-> MSEDerivative(n.as[L], y)]
            ELSE [c \in 1..n.layers[i + 1] |->
                    SumSeq([r \in 1..n.layers[i + 2] |->
                               RMul(delta[i + 1][r], n.weights[i + 1][r][c])])]
    IN  delta

\* the entries one backward(y, Loss) computes on network n: for every
\* non-input layer the learning rate times the gradient by its weights, and
\* by its biases
GradWeights(n, y) ==
    [i \in 1..(NLayers(n) - 1) |->
        [r \in 1..n.layers[i + 1] |->
            [c \in 1..n.layers[i] |->
                RMul(LearningRate, RMul(Delta(n, y)[i][r], n.as[i][c]))]]]

GradBias(n, y) ==
    [i \in 1..(NLayers(n) - 1) |->
        [r \in 1..n.layers[i + 1] |-> RMul(LearningRate, Delta(n, y)[i][r])]]

\* C11: each backward(y, Loss) appends one entry to d_weights and one to
\* d_bias, the entry holding for every non-input layer the gradient computed
\* by this call (none of them a weight or bias array of the network), and
\* leaves every weight matrix and bias vector as it was.
C11_BackwardAppendsFreshEntry ==
    LET o == obs[Main]
        n == net[Main]
    IN  o.op = "backward" =>
          /\ n.weights = o.before.weights /\ n.bias = o.before.bias
          /\ Len(n.d_weights) = Len(o.before.d_weights) + 1
          /\ Len(n.d_bias) = Len(o.before.d_bias) + 1
          /\ \E k \in 1..Len(Y) :
                /\ n.d_weights = Append(o.before.d_weights, GradWeights(o.before, Y[k]))
                /\ n.d_bias = Append(o.before.d_bias, GradBias(o.before, Y[k]))

\* backward has run on a network whose gradient differs from its weights
C11_Witness ==
    LET o == obs[Main]
        n == net[Main]
    IN  /\ o.op = "backward" /\ Len(n.d_weights) = 2
        /\ n.d_weights[2] # n.weights /\ n.d_bias[2] # n.bias
        /\ \A i \in 1..Len(n.weights) : n.d_weights[2][i] # n.weights[i]

(***************************************************************************)
(* forward, backward, step and clear called on one network in any order,   *)
(* the record keeping every call: for backward the entry it is to append.  *)
(***************************************************************************)
Called(self, e) ==
    [obs[self] EXCEPT !.method = "direct", !.trace = Append(@, e)]

DirectCall(self) ==
    /\ frame[self].pc = "idle"
    /\ calls < MaxDirect
    /\ \/ \E k \in 1..Len(X) :
              DoForward(self, X[k], Called(self, Ev("forward", k)))
       \/ \E k \in 1..Len(Y) :
              DoBackward(self, Y[k],
                  Called(self, Ev("backward",
                      [dw |-> GradWeights(net[self], Y[k]),
                       db |-> GradBias(net[self], Y[k])])))
       \/ DoStep(self, Called(self, Ev("step", Len(net[self].d_weights))))
       \/ DoClear(self, Called(self, Ev("clear", 0)))
    /\ calls' = calls + 1
    /\ UNCHANGED <<frame, X, Y>>

NextDirect == DirectCall(Main)

SpecDirect == Init /\ [][NextDirect]_vars

\* the entries appended by the backward calls of a record since its last
\* clear()
SinceClear(trace) ==
    LET cl == {k \in 1..Len(trace) : trace[k].ev = "clear"}
        from == IF cl = {} THEN 1
                ELSE (CHOOSE k \in cl : \A j \in cl : j <= k) + 1
        bw == SelectSeq(SubSeq(trace, from, Len(trace)),
                        LAMBDA e : e.ev = "backward")
    IN  [k \in 1..Len(bw) |-> bw[k].arg]

\* C12: with k >= 1 entries in the accumulators step() replaces each weight
\* matrix by itself minus the elementwise mean of the k accumulated weight
\* gradients of its layer, and each bias vector likewise; the entries are
\* those appended by the backward calls since the last clear(), so that
\* without clear() the gradients an earlier step() applied are counted again
\* by the next one.
C12_StepSubtractsMean ==
    LET o == obs[Main]
        n == net[Main]
        b == o.before
        k == Len(b.d_weights)
        since == SinceClear(o.trace)
    IN  o.method = "direct" =>
          /\ n.d_weights = [m \in 1..Len(since) |-> since[m].dw]
          /\ n.d_bias = [m \in 1..Len(since) |-> since[m].db]
          /\ (o.op = "step" /\ k >= 1) =>
                /\ Len(b.d_bias) = k
                /\ \A i \in 1..Len(b.weights) :
                      /\ \A r \in 1..Len(b.weights[i]) :
                            \A c \in 1..Len(b.weights[i][r]) :
                               n.weights[i][r][c] =
                                  RSub(b.weights[i][r][c],
                                       RDivN(SumSeq([m \in 1..k |->
                                                 b.d_weights[m][i][r][c]]), k))
                      /\ \A r \in 1..Len(b.bias[i]) :
                            n.bias[i][r] =
                               RSub(b.bias[i][r],
                                    RDivN(SumSeq([m \in 1..k |->
                                              b.d_bias[m][i][r]]), k))

\* two backward calls, then two step() calls with no clear() between: the
\* second step() has moved the biases again, by the same two entries
C12_Witness ==
    LET o == obs[Main]
        t == o.trace
    IN  /\ o.method = "direct" /\ Len(t) = 4
        /\ t[1].ev = "backward" /\ t[2].ev = "backward"
        /\ t[3].ev = "step" /\ t[4].ev = "step"
        /\ t[1].arg # t[2].arg
        /\ Len(net[Main].d_weights) = 2
        /\ net[Main].bias # o.before.bias
        /\ o.before.bias # o.start.bias

\* some weight of w or some bias of b is NaN
SomeNaN(w, b) ==
    \E i \in 1..Len(w) : \E r \in 1..Len(w[i]) :
        \/ IsNaN(b[i][r])
        \/ \E c \in 1..Len(w[i][r]) : IsNaN(w[i][r][c])

\* ... of network n, its accumulated entries included
AnyNaN(n) ==
    \/ SomeNaN(n.weights, n.bias)
    \/ \E m \in 1..Len(n.d_weights) : SomeNaN(n.d_weights[m], n.d_bias[m])

\* C13: on a dataset with at least one (x, y) pair, and with batch_size >= 1
\* for minibatch_fit, every step() that fit or minibatch_fit calls finds
\* accumulators of one length >= 1: the loops never take the mean of no
\* gradients, and a call that starts without NaN never has a NaN parameter.
C13_TrainingStepsNonEmpty ==
    LET o == obs[Main]
        f == frame[Main]
        n == net[Main]
    IN  (/\ o.method \in {"fit", "minibatch_fit"}
         /\ FitRows >= 1
         /\ o.method = "minibatch_fit" => f.batch_size >= 1) =>
          /\ o.op = "step" =>
                /\ Len(o.before.d_weights) = Len(o.before.d_bias)
                /\ Len(o.before.d_weights) >= 1
          /\ ~AnyNaN(o.start) => ~AnyNaN(n)

\* minibatch_fit has called step() on the one entry of its second chunk
C13_Witness ==
    LET o == obs[Main]
        f == frame[Main]
    IN  /\ o.method = "minibatch_fit" /\ o.op = "step"
        /\ f.batch_size = 1 /\ Len(X) = 2 /\ Len(o.chunks) = 2
        /\ Len(o.before.d_weights) = 1
        /\ net[Main].weights # o.before.weights
        /\ ~AnyNaN(net[Main])

====
